---------------------------- MODULE Spec2Model ----------------------------
(***************************************************************************)
(* Model of src/processador_anss.py (class ANSProcessor): the one-shot     *)
(* pipeline process() and the methods it calls.                            *)
(*                                                                         *)
(* Text is a sequence of one-character strings.  Characters outside ASCII  *)
(* are written by name ("e_acute" is U+00E9, "NBSP" is U+00A0, ...), and   *)
(* the ASCII control characters as "TAB", "LF", "CR".  The missing value   *)
(* of pandas (NaN, a float, not a str) is the one-element sequence NaN.    *)
(***************************************************************************)
EXTENDS Integers, Sequences, FiniteSets, TLC

VARIABLES
    pc,          \* where the running call stands
    ran,         \* the stages of process() entered so far, in order
    raised,      \* the exception propagating to the caller, or NoError
    links,       \* the href of every <a href> of the landing page
    pdf_url,     \* find_anexo_i_url's return value
    pdf_path,    \* _download_file's return value
    tables,      \* tabula.read_pdf's return value
    df,          \* extract_tables_from_pdf's return value (full_table)
    df_cleaned,  \* clean_dataframe's return value
    files,       \* the paths written under downloads/ and output/
    zip_path,    \* create_zip's return value
    text,        \* normalize_text's argument
    text_out     \* normalize_text's return value

vars == <<pc, ran, raised, links, pdf_url, pdf_path, tables, df, df_cleaned,
          files, zip_path, text, text_out>>

None == <<"None_">>
NaN == <<"NaN_">>

(***************************************************************************)
(* Characters                                                              *)
(***************************************************************************)
UpperLetters == <<"A","B","C","D","E","F","G","H","I","J","K","L","M",
                  "N","O","P","Q","R","S","T","U","V","W","X","Y","Z">>
LowerLetters == <<"a","b","c","d","e","f","g","h","i","j","k","l","m",
                  "n","o","p","q","r","s","t","u","v","w","x","y","z">>
Digits == {"0","1","2","3","4","5","6","7","8","9"}

Range(s) == {s[i] : i \in 1..Len(s)}

\* str.lower on one ASCII character
LowerChar(c) ==
    IF \E i \in 1..26 : UpperLetters[i] = c
    THEN LowerLetters[CHOOSE i \in 1..26 : UpperLetters[i] = c]
    ELSE c
Lower(s) == [i \in 1..Len(s) |-> LowerChar(s[i])]

\* unicodedata.normalize('NFKD', c) for one character
NFKDChar(c) ==
    CASE c = "e_acute" -> <<"e", "COMBINING_ACUTE">>
      [] c = "o_acute" -> <<"o", "COMBINING_ACUTE">>
      [] c = "a_tilde" -> <<"a", "COMBINING_TILDE">>
      [] c = "c_cedilla" -> <<"c", "COMBINING_CEDILLA">>
      [] c = "NBSP" -> <<" ">>
      [] c = "fi_ligature" -> <<"f", "i">>
      [] OTHER -> <<c>>

NonAscii == {"e_acute", "o_acute", "a_tilde", "c_cedilla", "NBSP", "fi_ligature",
             "COMBINING_ACUTE", "COMBINING_TILDE", "COMBINING_CEDILLA", "euro"}
IsAscii(c) == c \notin NonAscii

\* the regex classes \w and \s on ASCII text
IsWordChar(c) == c \in Range(UpperLetters) \cup Range(LowerLetters) \cup Digits \cup {"_"}
IsSpaceChar(c) == c \in {" ", "TAB", "LF", "CR"}

(***************************************************************************)
(* normalize_text                                                          *)
(***************************************************************************)
RECURSIVE NFKD(_)
NFKD(s) == IF s = <<>> THEN <<>> ELSE NFKDChar(Head(s)) \o NFKD(Tail(s))

\* .encode('ASCII', 'ignore').decode('ASCII')
AsciiIgnore(s) == SelectSeq(s, IsAscii)

\* re.sub(r'[^\w\s,.;-]', '', text); the faulty variant also keeps "!"
KeptByRegexAndBang(c) == IsWordChar(c) \/ IsSpaceChar(c) \/ c \in {",", ".", ";", "-", "!"}
KeptByRegex(c) == IsWordChar(c) \/ IsSpaceChar(c) \/ c \in {",", ".", ";", "-"}
RemoveSpecial(s) == SelectSeq(s, KeptByRegex)

\* re.sub(r'\s+', ' ', text)
RECURSIVE CollapseSpaces(_)
CollapseSpaces(s) ==
    IF s = <<>> THEN <<>>
    ELSE IF IsSpaceChar(Head(s))
         THEN IF Len(s) > 1 /\ IsSpaceChar(s[2])
              THEN CollapseSpaces(Tail(s))
              ELSE <<" ">> \o CollapseSpaces(Tail(s))
         ELSE <<Head(s)>> \o CollapseSpaces(Tail(s))

\* str.strip()
RECURSIVE LStrip(_)
LStrip(s) == IF s # <<>> /\ IsSpaceChar(Head(s)) THEN LStrip(Tail(s)) ELSE s
RECURSIVE RStrip(_)
RStrip(s) ==
    IF s # <<>> /\ IsSpaceChar(s[Len(s)]) THEN RStrip(SubSeq(s, 1, Len(s) - 1)) ELSE s
Strip(s) == LStrip(RStrip(s))

\* .replace('\n', ' ').replace('\r', ' ')
ReplaceNewlines(s) == [i \in 1..Len(s) |-> IF s[i] \in {"LF", "CR"} THEN " " ELSE s[i]]

IsStr(v) == v # NaN /\ v # None

\* the body of normalize_text for a str; the faulty variant collapses and
\* strips before it removes
normalize_str_collapse_first(t) ==
    ReplaceNewlines(RemoveSpecial(Strip(CollapseSpaces(AsciiIgnore(NFKD(t))))))
normalize_str(t) ==
    ReplaceNewlines(Strip(CollapseSpaces(RemoveSpecial(AsciiIgnore(NFKD(t))))))

normalize_text(t) == IF ~IsStr(t) THEN t ELSE normalize_str(t)


(***************************************************************************)
(* String helpers (str.startswith, str.endswith, the `in` operator)        *)
(***************************************************************************)
StartsWith(s, p) == Len(p) <= Len(s) /\ SubSeq(s, 1, Len(p)) = p
EndsWith(s, p) == Len(p) <= Len(s) /\ SubSeq(s, Len(s) - Len(p) + 1, Len(s)) = p
Contains(s, p) == \E i \in 1..(Len(s) - Len(p) + 1) : SubSeq(s, i, i + Len(p) - 1) = p

(***************************************************************************)
(* find_anexo_i_url                                                        *)
(***************************************************************************)
Marker == <<"A","n","e","x","o","_","I">>
ExtPdf == <<".","p","d","f">>
ExtXlsx == <<".","x","l","s","x">>
HttpPrefix == <<"h","t","t","p">>
GovBrHost == <<"h","t","t","p","s",":","/","/","w","w","w",".","g","o","v",".","b","r">>

\* the condition of line 64
Qualifies(href) ==
    /\ Contains(href, Marker)
    /\ (EndsWith(Lower(href), ExtPdf) \/ EndsWith(Lower(href), ExtXlsx))

\* line 66
Absolute(href) == IF StartsWith(href, HttpPrefix) THEN href ELSE GovBrHost \o href

\* the loop of lines 62-68: the first qualifying link, or the exception
RECURSIVE FindAnexoI(_)
FindAnexoI(ls) ==
    IF ls = <<>> THEN [ok |-> FALSE, url |-> None]
    ELSE IF Qualifies(Head(ls)) THEN [ok |-> TRUE, url |-> Absolute(Head(ls))]
    ELSE FindAnexoI(Tail(ls))

(***************************************************************************)
(* Configuration set by __init__                                           *)
(***************************************************************************)
OD == <<"O","D">>
AMB == <<"A","M","B">>
SegOdontologica == <<"S","e","g","."," ","O","d","o","n","t","o","l","o_acute","g","i","c","a">>
SegAmbulatorial == <<"S","e","g","."," ","A","m","b","u","l","a","t","o","r","i","a","l">>

\* self.abbreviations: code -> label
abbreviations == {<<OD, SegOdontologica>>, <<AMB, SegAmbulatorial>>}

\* self.expected_columns
expected_columns == <<
    <<"P","R","O","C","E","D","I","M","E","N","T","O">>,
    <<"R","N","_","a","l","t","e","r","a","c","a","o">>,
    <<"V","I","G","E","N","C","I","A">>,
    <<"O","D">>,
    <<"A","M","B">>,
    <<"H","C","O">>,
    <<"H","S","O">>,
    <<"R","E","F">>,
    <<"P","A","C">>,
    <<"D","U","T">>,
    <<"S","U","B","G","R","U","P","O">>,
    <<"G","R","U","P","O">>,
    <<"C","A","P","I","T","U","L","O">>>>

(***************************************************************************)
(* Tables.  A DataFrame is [columns, rows]: the column labels and the rows,*)
(* each row a sequence of cells as long as columns.  A chunk returned by   *)
(* tabula with header=None is [ncols, rows]: its labels are 0..ncols-1.    *)
(* tabula gives every cell as a str, or NaN where the cell has no text, so *)
(* a column is of dtype object unless it is all NaN.                       *)
(***************************************************************************)
NoTable == [columns |-> <<>>, rows |-> <<>>]

Project(row, keep) == [k \in 1..Len(keep) |-> row[keep[k]]]
HasDuplicates(s) == \E i, j \in 1..Len(s) : i < j /\ s[i] = s[j]

\* line 92: the filter of valid tables; the faulty variant admits 3 columns
IsValidTableOffByOne(t) == t.ncols >= 3
IsValidTable(t) == t.ncols > 3

\* lines 94-99: dropna(axis=1, how='all'), then the first row becomes the header
ProcessChunk(t) ==
    LET keep == SelectSeq([j \in 1..t.ncols |-> j],
                          LAMBDA j : \E r \in 1..Len(t.rows) : t.rows[r][j] # NaN)
    IN [columns |-> Project(t.rows[1], keep),
        rows |-> [r \in 1..(Len(t.rows) - 1) |-> Project(t.rows[r + 1], keep)]]

RECURSIVE MapProcess(_)
MapProcess(ts) ==
    IF ts = <<>> THEN <<>> ELSE <<ProcessChunk(Head(ts))>> \o MapProcess(Tail(ts))

\* the labels of all frames, each once, in order of first appearance
RECURSIVE AppendNew(_, _)
AppendNew(acc, labels) ==
    IF labels = <<>> THEN acc
    ELSE AppendNew(IF \E i \in 1..Len(acc) : acc[i] = Head(labels)
                   THEN acc ELSE Append(acc, Head(labels)),
                   Tail(labels))
RECURSIVE UnionLabels(_)
UnionLabels(ps) ==
    IF ps = <<>> THEN <<>>
    ELSE AppendNew(<<>>, ps[1].columns \o UnionLabels(Tail(ps)))

\* one frame's rows reindexed to the labels of the result: a cell goes to the
\* column that carries its label, a label the frame lacks gives NaN
Reindex(p, labels) ==
    [r \in 1..Len(p.rows) |->
        [c \in 1..Len(labels) |->
            IF \E j \in 1..Len(p.columns) : p.columns[j] = labels[c]
            THEN p.rows[r][CHOOSE j \in 1..Len(p.columns) : p.columns[j] = labels[c]]
            ELSE NaN]]

RECURSIVE StackRows(_, _)
StackRows(ps, labels) ==
    IF ps = <<>> THEN <<>>
    ELSE (IF Head(ps).columns = labels THEN Head(ps).rows ELSE Reindex(Head(ps), labels))
         \o StackRows(Tail(ps), labels)

\* line 105: pd.concat(processed_tables, ignore_index=True).  Columns are
\* aligned by label.  Equal labels in every frame are kept as they are;
\* otherwise the result has the union of the labels, and a frame whose own
\* labels repeat cannot be reindexed (InvalidIndexError).
Concat(ps) ==
    LET same == \A k \in 1..Len(ps) : ps[k].columns = ps[1].columns
        labels == IF same THEN ps[1].columns ELSE UnionLabels(ps)
    IN IF ~same /\ \E k \in 1..Len(ps) : HasDuplicates(ps[k].columns)
       THEN [ok |-> FALSE, table |-> NoTable]
       ELSE [ok |-> TRUE, table |-> [columns |-> labels, rows |-> StackRows(ps, labels)]]

\* line 108: the column check; the faulty variant is off by one
TooFewColumnsOffByOne(n) == n < Len(expected_columns) - 1
TooFewColumns(n) == n < Len(expected_columns)

Error(type, stage, actual, expected) ==
    [type |-> type, stage |-> stage, actual |-> actual, expected |-> expected]
NoError == Error("none", "none", 0, 0)

\* lines 90-100: the processed tables, in the order tabula gave them
ProcessedTables(ts) == MapProcess(SelectSeq(ts, IsValidTable))

\* line 105: full_table, once the processed tables are concatenated
FullTable(ts) == Concat(ProcessedTables(ts))

\* lines 90-112 of extract_tables_from_pdf, given tabula's tables
Reconcile(ts) ==
    LET processed == ProcessedTables(ts)
    IN IF processed = <<>>
       THEN [ok |-> FALSE, table |-> NoTable, error |-> Error("ValueError", "extract", 0, 0)]
       ELSE LET c == FullTable(ts)
            IN IF ~c.ok
               THEN [ok |-> FALSE, table |-> NoTable,
                     error |-> Error("InvalidIndexError", "extract", 0, 0)]
               ELSE IF TooFewColumns(Len(c.table.columns))
               THEN [ok |-> FALSE, table |-> NoTable,
                     error |-> Error("ValueError", "extract", Len(c.table.columns),
                                     Len(expected_columns))]
               ELSE [ok |-> TRUE, table |-> c.table, error |-> NoError]

(***************************************************************************)
(* clean_dataframe                                                         *)
(***************************************************************************)
StrNan == <<"n","a","n">>
StrNone == <<"N","o","n","e">>
StrNaT == <<"N","a","T">>

\* .astype(str) on a cell of an object column
AsTypeStr(v) == IF v = NaN THEN StrNan ELSE v
\* .replace({'nan': '', 'None': '', 'NaT': ''})
ReplaceMissing(v) == IF v \in {StrNan, StrNone, StrNaT} THEN <<>> ELSE v
\* .fillna('')
FillNa(v) == IF v = NaN THEN <<>> ELSE v

\* lines 145-146: the positions kept; the faulty variant keeps the last ones
KeptColumnsLast(n) ==
    IF n > Len(expected_columns)
    THEN [j \in 1..Len(expected_columns) |-> j + n - Len(expected_columns)]
    ELSE [j \in 1..n |-> j]
KeptColumns(n) ==
    IF n > Len(expected_columns)
    THEN [j \in 1..Len(expected_columns) |-> j]
    ELSE [j \in 1..n |-> j]

clean_dataframe(t) ==
    LET \* line 139: dropna(how='all')
        rows1 == SelectSeq(t.rows, LAMBDA row : \E j \in 1..Len(row) : row[j] # NaN)
        \* line 142
        cols1 == [j \in 1..Len(t.columns) |-> normalize_text(t.columns[j])]
        \* lines 145-146
        keep == KeptColumns(Len(cols1))
        rows2 == [r \in 1..Len(rows1) |-> Project(rows1[r], keep)]
        \* line 149
        cols2 == SubSeq(expected_columns, 1, Len(keep))
        \* line 152: the columns of dtype object hold at least one str
        isObject(j) == \E r \in 1..Len(rows2) : IsStr(rows2[r][j])
        \* lines 153-154, and line 157 for the other columns
        cell(r, j) == IF isObject(j)
                      THEN ReplaceMissing(normalize_text(AsTypeStr(rows2[r][j])))
                      ELSE rows2[r][j]
    IN [columns |-> cols2,
        rows |-> [r \in 1..Len(rows2) |-> [j \in 1..Len(cols2) |-> FillNa(cell(r, j))]]]

(***************************************************************************)
(* Inputs                                                                  *)
(***************************************************************************)
MaxLen == 4
MaxLinks == 2
MaxChunks == 2
MaxRows == 2

SeqsUpTo(S, n) == UNION {[1..k -> S] : k \in 0..n}

\* the characters text is drawn from
TextAlphabet == {"a", "e_acute", "euro", "NBSP", " ", "LF", "_", "!", "-"}
TextInputs == SeqsUpTo(TextAlphabet, MaxLen) \cup {NaN, None}

\* the links a landing page is drawn from: a place, a name, an extension
HrefPlaces == {<<"h","t","t","p","s",":","/","/","w","w","w",".","g","o","v",".","b","r","/">>, <<"/","a","r","q","u","i","v","o","/">>, <<"f","t","p",":","/","/","f","t","p",".","a","n","s",".","g","o","v",".","b","r","/">>}
HrefNames == {<<"A","n","e","x","o","_","I","_","R","o","l">>, <<"A","n","e","x","o","_","I","I">>, <<"a","n","e","x","o","_","i">>}
HrefExtensions == {<<".","p","d","f">>, <<".","X","L","S","X">>, <<".","c","s","v">>}
Hrefs == {p \o n \o e : p \in HrefPlaces, n \in HrefNames, e \in HrefExtensions}
RelativeAnexo == <<"/","a","r","q","u","i","v","o","/">> \o <<"A","n","e","x","o","_","I","_","R","o","l">> \o <<".","p","d","f">>
\* the landing pages of a run of process()
PipelineLinks == {<<>>, <<RelativeAnexo>>}

\* the title of column j in the document, and variants of the header row
AltTitle == <<"R","N","LF","(","a","l","t","e","r","a","c_cedilla","a_tilde","o",")">>
ColumnTitle(j) ==
    IF j <= Len(expected_columns) THEN expected_columns[j]
    ELSE <<"E","X","T","R","A", LowerLetters[j]>>
HeaderCell(hk, j) ==
    CASE hk = "gap" /\ j = 3 -> NaN
      [] hk = "alt" /\ j = 2 -> AltTitle
      [] hk = "dup" /\ j = 2 -> ColumnTitle(1)
      [] OTHER -> ColumnTitle(j)
\* the cell of column j in a data row of kind rk
DataCell(rk, hk, j) ==
    CASE hk = "gap" /\ j = 3 -> NaN
      [] rk = "blank" -> NaN
      [] rk = "abbr" /\ j = 4 -> OD
      [] rk = "abbr" /\ j = 5 -> AMB
      [] rk = "abbrsp" /\ j = 4 -> <<"o","d"," ">>
      [] rk = "abbrsp" /\ j = 5 -> <<"O","D","X">>
      [] rk = "dirty" /\ j = 1 -> <<"e_acute","_","!"," "," ","b">>
      [] rk = "dirty" /\ j = 2 -> StrNan
      [] rk = "dirty" /\ j = 3 -> NaN
      [] OTHER -> <<LowerLetters[j]>>
HeaderRow(hk, w) == [j \in 1..w |-> HeaderCell(hk, j)]
DataRow(rk, hk, w) == [j \in 1..w |-> DataCell(rk, hk, j)]

\* the chunks tabula returns: a width, a header row, data rows
ChunkWidths == {3, 4, Len(expected_columns)}
ChunkHeaders == {"std", "alt", "dup", "gap"}
ChunkBodies == {<<>>, <<"plain">>, <<"abbr", "blank">>}
Chunk(w, hk, body) ==
    [ncols |-> w,
     rows |-> <<HeaderRow(hk, w)>> \o [r \in 1..Len(body) |-> DataRow(body[r], hk, w)]]
Chunks == {Chunk(w, hk, b) : w \in ChunkWidths, hk \in ChunkHeaders, b \in ChunkBodies}
TabulaResults == SeqsUpTo(Chunks, MaxChunks)

\* the unified tables clean_dataframe is called with
CleanWidths == {Len(expected_columns), Len(expected_columns) + 1,
                Len(expected_columns) + 2}
CleanRowKinds == {"plain", "abbr", "abbrsp", "dirty", "blank"}
CleanInputs ==
    {[columns |-> HeaderRow(hk, w),
      rows |-> [r \in 1..Len(body) |-> DataRow(body[r], "std", w)]] :
        w \in CleanWidths, hk \in {"std", "alt"}, body \in SeqsUpTo(CleanRowKinds, MaxRows)}

(***************************************************************************)
(* process()                                                               *)
(***************************************************************************)
Stages == <<"mkdir", "locate", "fetch", "extract", "normalize", "write", "archive">>

PdfPath == "downloads/Anexo_I.pdf"
CsvPath == "output/Rol_Procedimentos.csv"
ZipPath == "output/Teste_seu_nome.zip"

\* the value of pc after each stage returned
Positions == <<"start", "dirs", "located", "fetched", "extracted", "normalized",
               "written", "archived">>

Enter(stage) == ran' = Append(ran, stage)
\* an except block: log, then re-raise to the caller of process(); the faulty
\* variant logs and goes on to the next statement
RaiseSwallowed(e) == pc' = Positions[Len(ran) + 2] /\ raised' = e
Raise(e) == pc' = "failed" /\ raised' = e

Init ==
    /\ pc = "start"
    /\ ran = <<>>
    /\ raised = NoError
    /\ links = <<>>
    /\ pdf_url = None
    /\ pdf_path = ""
    /\ tables = <<>>
    /\ df = NoTable
    /\ df_cleaned = NoTable
    /\ files = {}
    /\ zip_path = ""
    /\ text = None
    /\ text_out = None

\* line 219
CreateDirectories ==
    /\ pc = "start"
    /\ Enter("mkdir")
    /\ \/ pc' = "dirs" /\ UNCHANGED raised
       \/ Raise(Error("OSError", "mkdir", 0, 0))
    /\ UNCHANGED <<links, pdf_url, pdf_path, tables, df, df_cleaned, files, zip_path,
                   text, text_out>>

\* line 222: find_anexo_i_url on the links of the landing page
Locate ==
    /\ pc = "dirs"
    /\ Enter("locate")
    /\ \/ \E ls \in PipelineLinks :
            /\ links' = ls
            /\ IF FindAnexoI(ls).ok
               THEN pc' = "located" /\ pdf_url' = FindAnexoI(ls).url /\ UNCHANGED raised
               ELSE Raise(Error("Exception", "locate", 0, 0)) /\ UNCHANGED pdf_url
       \/ \* requests.get raises
          Raise(Error("RequestException", "locate", 0, 0)) /\ UNCHANGED <<links, pdf_url>>
    /\ UNCHANGED <<pdf_path, tables, df, df_cleaned, files, zip_path, text, text_out>>

\* line 223: _download_file
Fetch ==
    /\ pc = "located"
    /\ Enter("fetch")
    /\ \/ pc' = "fetched" /\ pdf_path' = PdfPath /\ files' = files \cup {PdfPath}
          /\ UNCHANGED raised
       \/ \* the request fails, before or after the file was opened
          /\ Raise(Error("RequestException", "fetch", 0, 0))
          /\ \E opened \in BOOLEAN : files' = IF opened THEN files \cup {PdfPath} ELSE files
          /\ UNCHANGED pdf_path
    /\ UNCHANGED <<links, pdf_url, tables, df, df_cleaned, zip_path, text, text_out>>

\* line 226: extract_tables_from_pdf
Extract ==
    /\ pc = "fetched"
    /\ Enter("extract")
    /\ \/ \E ts \in TabulaResults :
            LET r == Reconcile(ts)
            IN /\ tables' = ts
               /\ IF r.ok
                  THEN pc' = "extracted" /\ df' = r.table /\ UNCHANGED raised
                  ELSE Raise(r.error) /\ UNCHANGED df
       \/ \* tabula.read_pdf raises
          Raise(Error("TabulaError", "extract", 0, 0)) /\ UNCHANGED <<tables, df>>
    /\ UNCHANGED <<links, pdf_url, pdf_path, df_cleaned, files, zip_path, text, text_out>>

\* line 229: clean_dataframe
Clean ==
    /\ pc = "extracted"
    /\ Enter("normalize")
    /\ \/ pc' = "normalized" /\ df_cleaned' = clean_dataframe(df) /\ UNCHANGED raised
       \/ Raise(Error("Exception", "normalize", 0, 0)) /\ UNCHANGED df_cleaned
    /\ UNCHANGED <<links, pdf_url, pdf_path, tables, df, files, zip_path, text, text_out>>

\* line 232: save_to_csv
SaveCsv ==
    /\ pc = "normalized"
    /\ Enter("write")
    /\ \/ pc' = "written" /\ files' = files \cup {CsvPath} /\ UNCHANGED raised
       \/ /\ Raise(Error("OSError", "write", 0, 0))
          /\ \E written \in BOOLEAN : files' = IF written THEN files \cup {CsvPath} ELSE files
    /\ UNCHANGED <<links, pdf_url, pdf_path, tables, df, df_cleaned, zip_path, text, text_out>>

\* lines 235-239: create_zip, then the return
CreateZip ==
    /\ pc = "written"
    /\ Enter("archive")
    /\ \/ pc' = "archived" /\ zip_path' = ZipPath /\ files' = files \cup {ZipPath}
          /\ UNCHANGED raised
       \/ /\ Raise(Error("OSError", "archive", 0, 0))
          /\ \E written \in BOOLEAN : files' = IF written THEN files \cup {ZipPath} ELSE files
          /\ UNCHANGED zip_path
    /\ UNCHANGED <<links, pdf_url, pdf_path, tables, df, df_cleaned, text, text_out>>

Next == CreateDirectories \/ Locate \/ Fetch \/ Extract \/ Clean \/ SaveCsv \/ CreateZip

Spec == Init /\ [][Next]_vars

(***************************************************************************)
(* The methods called on their own                                         *)
(***************************************************************************)
Idle(call) ==
    /\ pc = call
    /\ ran = <<>>
    /\ raised = NoError
    /\ pdf_url = None
    /\ pdf_path = ""
    /\ tables = <<>>
    /\ df_cleaned = NoTable
    /\ files = {}
    /\ zip_path = ""
    /\ text_out = None

InitText == Idle("call normalize_text") /\ text \in TextInputs /\ links = <<>> /\ df = NoTable
CallNormalizeText ==
    /\ pc = "call normalize_text"
    /\ pc' = "returned"
    /\ text_out' = normalize_text(text)
    /\ UNCHANGED <<ran, raised, links, pdf_url, pdf_path, tables, df, df_cleaned, files,
                   zip_path, text>>
SpecText == InitText /\ [][CallNormalizeText]_vars

InitLocate ==
    Idle("call find_anexo_i_url") /\ links \in SeqsUpTo(Hrefs, MaxLinks) /\ text = None
    /\ df = NoTable
CallFindAnexoI ==
    /\ pc = "call find_anexo_i_url"
    /\ IF FindAnexoI(links).ok
       THEN pc' = "returned" /\ pdf_url' = FindAnexoI(links).url /\ UNCHANGED raised
       ELSE Raise(Error("Exception", "locate", 0, 0)) /\ UNCHANGED pdf_url
    /\ UNCHANGED <<ran, links, pdf_path, tables, df, df_cleaned, files, zip_path, text,
                   text_out>>
SpecLocate == InitLocate /\ [][CallFindAnexoI]_vars

InitClean ==
    Idle("call clean_dataframe") /\ df \in CleanInputs /\ text = None /\ links = <<>>
CallCleanDataframe ==
    /\ pc = "call clean_dataframe"
    /\ pc' = "returned"
    /\ df_cleaned' = clean_dataframe(df)
    /\ UNCHANGED <<ran, raised, links, pdf_url, pdf_path, tables, df, files, zip_path,
                   text, text_out>>
SpecClean == InitClean /\ [][CallCleanDataframe]_vars

(***************************************************************************)
(* Properties                                                              *)
(***************************************************************************)
IsPrefix(s, t) == Len(s) <= Len(t) /\ SubSeq(t, 1, Len(s)) = s
Min(a, b) == IF a < b THEN a ELSE b

\* C1: in every run of process() the stages are entered in the fixed order
\* mkdir, locate, fetch, extract, normalize, write, archive, each at most
\* once; a stage that fails is the last stage entered, its error is the one
\* raised to the caller, and the run is archived only after every stage ran.
C1_StageOrder ==
    /\ IsPrefix(ran, Stages)
    /\ (raised # NoError) <=> (pc = "failed")
    /\ pc = "failed" => ran # <<>> /\ raised.stage = ran[Len(ran)]
    /\ pc # "failed" => pc = Positions[Len(ran) + 1]
    /\ zip_path # "" => pc = "archived" /\ ran = Stages
C1_Witness ==
    /\ pc = "failed"
    /\ raised.stage = "extract"
    /\ ran = SubSeq(Stages, 1, 4)
    /\ tables # <<>>

\* C2 as claimed: every table the normalizer returns in process() has the 13
\* column names with the full labels Seg. Odontologica and Seg. Ambulatorial
\* in the 4th and 5th place.
ClaimedSchema ==
    [expected_columns EXCEPT ![4] = SegOdontologica, ![5] = SegAmbulatorial]
C2_ClaimedSchemaNames ==
    pc \in {"normalized", "written", "archived"} => df_cleaned.columns = ClaimedSchema

\* a text in upper case
UpperChar(c) ==
    IF \E i \in 1..26 : LowerLetters[i] = c
    THEN UpperLetters[CHOOSE i \in 1..26 : LowerLetters[i] = c]
    ELSE c
Upper(s) == [i \in 1..Len(s) |-> UpperChar(s[i])]

\* the rows dropna(how='all') keeps
KeptRows(t) == SelectSeq(t.rows, LAMBDA row : \E j \in 1..Len(row) : row[j] # NaN)

\* C3 as claimed: a cell of the 4th or 5th column whose trimmed, uppercased
\* text equals an abbreviation code holds the full label after
\* clean_dataframe, and any other cell holds no label.
C3_ClaimedExpansion ==
    pc = "returned" =>
        \A r \in 1..Len(KeptRows(df)) : \A j \in {4, 5} : \A a \in abbreviations :
            LET cell == KeptRows(df)[r][j]
            IN IF IsStr(cell) /\ Upper(Strip(cell)) = a[1]
               THEN df_cleaned.rows[r][j] = a[2]
               ELSE \/ df_cleaned.rows[r][j] # a[2]
                    \/ \E b \in abbreviations : IsStr(cell) /\ Upper(Strip(cell)) = b[1]

\* the chunk and the row of the chunk that each row of the full table comes from
RECURSIVE Origins(_, _)
Origins(ts, k) ==
    IF k > Len(ts) THEN <<>>
    ELSE (IF ts[k].ncols > 3 THEN [r \in 1..(Len(ts[k].rows) - 1) |-> <<k, r + 1>>] ELSE <<>>)
         \o Origins(ts, k + 1)

\* C4 as claimed: the cells of column i of every surviving chunk are in
\* column i of the full table, and the full table is no wider than the
\* widest chunk.
C4_ClaimedPositional ==
    pc = "extracted" =>
        /\ \A m \in 1..Len(df.rows) :
              LET k == Origins(tables, 1)[m][1]
                  p == ProcessChunk(tables[k])
                  r == Origins(tables, 1)[m][2] - 1
              IN \A i \in 1..Len(p.columns) : df.rows[m][i] = p.rows[r][i]
        /\ \A w \in {n \in 0..Len(df.columns) :
                        \A k \in 1..Len(tables) : tables[k].ncols <= n} :
              Len(df.columns) <= w

\* C5: a full table with fewer than 13 columns makes extract_tables_from_pdf
\* raise a ValueError carrying the actual and the expected count, and then
\* the normalizer never runs; the table the normalizer gets in process() has
\* at least 13 columns.
C5_SchemaHardStop ==
    /\ LET ps == SelectSeq(tables, LAMBDA t : t.ncols > 3)
           full == Concat(MapProcess(ps))
       IN (/\ ran = SubSeq(Stages, 1, 4)
           /\ ps # <<>>
           /\ full.ok
           /\ Len(full.table.columns) < 13)
          => /\ pc = "failed"
             /\ raised = Error("ValueError", "extract", Len(full.table.columns), 13)
             /\ df_cleaned = NoTable
    /\ (pc = "failed" /\ raised.stage = "extract") => ran = SubSeq(Stages, 1, 4)
    /\ "normalize" \in Range(ran) => Len(df.columns) >= 13
C5_Witness ==
    /\ pc = "failed"
    /\ raised = Error("ValueError", "extract", 12, 13)
    /\ \E k \in 1..Len(tables) : tables[k].ncols = 13

\* what a cell holds after the normalizer
NormalizedCell(v) == IF v = NaN THEN <<>> ELSE ReplaceMissing(normalize_text(v))

\* C6: clean_dataframe keeps columns by position: the output has the first
\* min(n, 13) columns of an input of n columns, and output column i holds
\* the normalized cells of input column i.
C6_ColumnsByPosition ==
    pc = "returned" =>
        /\ Len(df_cleaned.columns) = Min(Len(df.columns), 13)
        /\ Len(df_cleaned.rows) = Len(KeptRows(df))
        /\ \A r \in 1..Len(df_cleaned.rows) :
              /\ Len(df_cleaned.rows[r]) = Len(df_cleaned.columns)
              /\ \A i \in 1..Len(df_cleaned.columns) :
                    df_cleaned.rows[r][i] = NormalizedCell(KeptRows(df)[r][i])
C6_Witness ==
    /\ pc = "returned"
    /\ Len(df.columns) = 15
    /\ Len(df_cleaned.columns) = 13
    /\ Len(df_cleaned.rows) = 2
    /\ df_cleaned.rows[1][13] = <<"m">>

\* C7: when extract_tables_from_pdf has built the full table, a chunk of 3
\* or fewer columns gave it no row and no column, and a chunk of more than 3
\* columns gave it each of its rows but the first, in chunk order, every
\* cell under the label of its own header.
C7_ChunkFilter ==
    (/\ ran = SubSeq(Stages, 1, 4)
     /\ tables # <<>>
     /\ ProcessedTables(tables) # <<>>
     /\ FullTable(tables).ok) =>
        LET full == FullTable(tables).table
            origins == Origins(tables, 1)
        IN /\ pc = "extracted" => df = full
           /\ Len(full.rows) = Len(origins)
           /\ \A m \in 1..Len(full.rows) :
                 LET t == tables[origins[m][1]]
                     row == t.rows[origins[m][2]]
                 IN /\ \A j \in 1..t.ncols :
                           row[j] # NaN =>
                               \E c \in 1..Len(full.columns) :
                                   full.columns[c] = t.rows[1][j] /\ full.rows[m][c] = row[j]
                    /\ \A c \in 1..Len(full.columns) :
                           full.rows[m][c] # NaN =>
                               \E j \in 1..t.ncols :
                                   full.columns[c] = t.rows[1][j] /\ full.rows[m][c] = row[j]
           /\ \A c \in 1..Len(full.columns) :
                 \E k \in 1..Len(tables) : \E j \in 1..tables[k].ncols :
                     tables[k].ncols > 3 /\ tables[k].rows[1][j] = full.columns[c]
C7_Witness ==
    /\ pc = "extracted"
    /\ Len(tables) = 2
    /\ tables[1].ncols = 3 /\ Len(tables[1].rows) = 3
    /\ tables[2].ncols = 13 /\ Len(tables[2].rows) = 3
    /\ Len(df.rows) = 2

\* C8: normalize_text is idempotent, and returns a value that is not a str
\* unchanged.
C8_Idempotent ==
    pc = "returned" =>
        /\ normalize_text(text_out) = text_out
        /\ ~IsStr(text) => text_out = text
C8_Witness ==
    /\ pc = "returned"
    /\ text = <<"e_acute", "!", " ", "LF">>
    /\ text_out = <<"e">>

IsAbsoluteLink(href) == Contains(href, <<":", "/", "/">>)

\* C10 as claimed: find_anexo_i_url returns the first qualifying link, with
\* the host before it when the link is relative and unchanged when it is
\* absolute, and raises when no link qualifies.
C10_ClaimedLocator ==
    pc \in {"returned", "failed"} =>
        IF \E i \in 1..Len(links) : Qualifies(links[i])
        THEN LET first == links[CHOOSE i \in 1..Len(links) :
                                  /\ Qualifies(links[i])
                                  /\ \A j \in 1..(i - 1) : ~Qualifies(links[j])]
             IN /\ pc = "returned"
                /\ pdf_url = IF IsAbsoluteLink(first) THEN first ELSE GovBrHost \o first
        ELSE pc = "failed" /\ raised.type = "Exception"

=============================================================================
